---- MODULE Spec2Model ----
\* Connection pool, buffered exec and streaming Proc of the session manager
\* (src-tauri/src/session_manager/connection.rs), as a state machine.
\*
\* A caller task obtains a Connection from the pool, then calls exec or open on
\* it. Every `.await` of the source is a step boundary; code between two
\* suspension points is one step. Both mutexes are tokio::sync::Mutex, whose
\* waiters are served first-come first-served: a lock is modelled as the FIFO
\* queue of the tasks that called lock(), the head being the holder.
EXTENDS Integers, Sequences, FiniteSets, TLC

\* ---------------------------------------------------------------- bounds
NTasks == 2
MaxConns == 2
MaxMsgs == 5
MaxRunMsgs == 3
NInts == 2

Tasks == 1..NTasks
ConnIds == 1..MaxConns
Ints == 1..NInts
Devices == {"router1"}
NoDevice == "-"
\* Byte chunks carried by data messages.
Chunks == {<<1>>, <<2, 3>>}
\* Exit codes the remote command may report.
ExitCodes == {0, 1, 2}
\* Errors of the transport (russh::Error); ChannelOpenFailure is the refusal.
OpenErrors == {"ChannelOpenFailure", "Disconnect", "SendError"}

VARIABLES
    connections,  \* the ConnectionsMap: device name -> Connection id, 0 = no entry
    pool_alive,   \* whether the pool's Arc is still alive (Weak::upgrade succeeds)
    device,       \* Connection.device.name of every constructed Connection
    handle,       \* Connection.handle: the session's AsyncMutex, as its FIFO queue
    task,         \* each caller: position, operation, Connection held, result
    ex,           \* exec's locals: stdout, stderr, status, eof (+ messages consumed)
    proc,         \* the Proc returned to each caller: channel slot `ch`, its lock
    rn,           \* Proc::run's position and locals, and what its sink received
    it            \* every Proc::interrupt call: position and result

vars == <<connections, pool_alive, device, handle, task, ex, proc, rn, it>>

\* ------------------------------------------------------- tokio::sync::Mutex
lock(q, who) == Append(q, who)
\* A lock that lets every task that asked for it in at once.
holds_in_queue(q, who) == \E k \in 1..Len(q) : q[k] = who
holds(q, who) == q # <<>> /\ Head(q) = who
\* A guard whose drop does not give the lock back.
unlock_never(q) == q
unlock(q) == Tail(q)

\* ---------------------------------------------------------------- messages
Msg(t, ext, data, code) == [t |-> t, ext |-> ext, data |-> data, code |-> code]
Data(d) == Msg("Data", 0, d, 0)
ExtendedData(d, e) == Msg("ExtendedData", e, d, 0)
ExitStatus(s) == Msg("ExitStatus", 0, <<>>, s)
Eof == Msg("Eof", 0, <<>>, 0)
Close == Msg("Close", 0, <<>>, 0)
\* ch.wait() yielding None: the message stream has ended.
NoMsg == Msg("None", 0, <<>>, 0)

\* The lock of a Proc's slot is asked for by run (0) and by interrupt calls.
Runner == 0

\* What the remote side may deliver on a channel.
Msgs ==
    {Data(d) : d \in Chunks}
    \cup {ExtendedData(d, 1) : d \in Chunks} \cup {ExtendedData(<<1>>, 2)}
    \cup {ExitStatus(s) : s \in ExitCodes}
    \cup {Eof, Close}
\* What run is given to consume.
RunMsgs ==
    {Data(d) : d \in Chunks}
    \cup {ExtendedData(<<1>>, 1), ExtendedData(<<1>>, 2)}
    \cup {ExitStatus(0), ExitStatus(1), Eof, Close}
\* A command that writes nothing: one exit status and one end-of-stream, in
\* either order, unless the stream ends before.
PoolMsgs == {ExitStatus(0), ExitStatus(1), Eof}
Unsent(got, m) == \A k \in 1..Len(got) : got[k].t # m.t

\* ------------------------------------------------------------------ results
Result(kind, status, output, cause) ==
    [kind |-> kind, status |-> status, output |-> output, cause |-> cause]
NoResult == Result("none", 0, <<>>, "")
Ok(bytes) == Result("Ok", 0, bytes, "")
OkProc == Result("Proc", 0, <<>>, "")
\* Error::reconnect()
ErrReconnect == Result("Reconnect", 0, <<>>, "")
\* impl From<russh::Error> for Error: the error carries its cause.
FromRussh(e) == Result("Transport", 0, <<>>, e)
\* Error::new(message)
ErrNew(message) == Result("Message", 0, <<>>, message)
\* Error { kind: ErrorKind::ExitStatus { status, output } }
ErrExitStatus(status, output) == Result("ExitStatus", status, output, "")

\* Option<u32>: <<>> is None, <<s>> is Some(s).
unwrap_or(opt, dflt) == IF opt = <<>> THEN dflt ELSE opt[1]

\* ------------------------------------------------------------------- state
\* `opened` keeps what channel_open_session answered to this caller.
IdleTask == [pc |-> "idle", op |-> "none", conn |-> 0, opened |-> "",
             result |-> NoResult]
ExecLocals == [stdout |-> <<>>, stderr |-> <<>>, status |-> <<>>, eof |-> FALSE,
               got |-> <<>>]
NoProc == [ch |-> "NoProc", lock |-> <<>>, closed |-> 0, taken |-> 0]
RunLocals == [pc |-> "idle", stderr |-> <<>>, status |-> <<>>, eof |-> FALSE,
              index |-> 0, got |-> <<>>, sink |-> <<>>, brk |-> "none",
              result |-> NoResult]
\* An interrupt call, with what run had done when the call was made: `mark` is
\* <<k>> when run had delivered k >= 1 chunks and seen no exit status, `after`
\* is whether run had already completed on its own.
IdleInt == [pc |-> "idle", result |-> NoResult, mark |-> <<>>, after |-> FALSE]

Init ==
    /\ connections = [d \in Devices |-> 0]
    /\ pool_alive = TRUE
    /\ device = [c \in ConnIds |-> NoDevice]
    /\ handle = [c \in ConnIds |-> <<>>]
    /\ task = [t \in Tasks |-> IdleTask]
    /\ ex = [t \in Tasks |-> ExecLocals]
    /\ proc = [t \in Tasks |-> NoProc]
    /\ rn = [t \in Tasks |-> RunLocals]
    /\ it = [t \in Tasks |-> [i \in Ints |-> IdleInt]]

\* ------------------------------------------------------------ the pool
Created == {c \in ConnIds : device[c] # NoDevice}

\* Connection::new: a Connection with a fresh id, bound to device d.
new(c, d) ==
    /\ device' = [device EXCEPT ![c] = d]
    /\ handle' = [handle EXCEPT ![c] = <<>>]

\* get_or_create(device): the entry if there is one, else a new session
\* (which may fail to be established) wrapped in a Connection and inserted.
\* An identity generator that hands out an identity already in use.
new_id_reused ==
    IF Created = {} THEN Cardinality(Created) + 1 ELSE CHOOSE c \in Created : TRUE
\* Uuid::new_v4(): an identity no Connection built so far has.
new_id == Cardinality(Created) + 1

get_or_create(t, d, established) ==
    /\ pool_alive
    /\ task[t].pc = "idle"
    /\ IF connections[d] # 0
         THEN /\ task' = [task EXCEPT ![t].pc = "conn", ![t].conn = connections[d]]
              /\ UNCHANGED <<connections, device, handle>>
         ELSE IF established
           THEN /\ Cardinality(Created) < MaxConns
                /\ LET c == new_id IN
                     /\ new(c, d)
                     /\ connections' = [connections EXCEPT ![d] = c]
                     /\ task' = [task EXCEPT ![t].pc = "conn", ![t].conn = c]
           ELSE /\ task' = [task EXCEPT ![t].pc = "done",
                                        ![t].result = FromRussh("Disconnect")]
                /\ UNCHANGED <<connections, device, handle>>
    /\ UNCHANGED <<pool_alive, ex, proc, rn, it>>

\* The process drops the pool; Connections held by callers outlive it.
drop_pool ==
    /\ pool_alive
    /\ pool_alive' = FALSE
    /\ connections' = [d \in Devices |-> 0]
    /\ UNCHANGED <<device, handle, task, ex, proc, rn, it>>

\* The caller is done with its result and starts over.
retry(t) ==
    /\ task[t].pc = "done"
    /\ task' = [task EXCEPT ![t] = IdleTask]
    /\ ex' = [ex EXCEPT ![t] = ExecLocals]
    /\ proc' = [proc EXCEPT ![t] = NoProc]
    /\ UNCHANGED <<connections, pool_alive, device, handle, rn, it>>

\* The caller of `run` borrows the Proc for as long as the call lasts, so the
\* Proc is dropped, and its owner starts over, only between calls.
retry_idle(t) ==
    /\ rn[t].pc \in {"idle", "done"}
    /\ \A i \in Ints : it[t][i].pc \in {"idle", "done"}
    /\ retry(t)

\* A removal that spares an entry held by another Connection.
remove_from_pool_same_id(c) ==
    IF pool_alive /\ connections[device[c]] = c
      THEN [connections EXCEPT ![device[c]] = 0]
      ELSE connections

\* Connection::remove_from_pool: the map after the removal by device name.
remove_from_pool(c) ==
    IF pool_alive
      THEN [connections EXCEPT ![device[c]] = 0]
      ELSE connections

\* ------------------------------------------------------------ Connection
\* exec, up to the lock().await of open_cmd_channel.
exec(t) ==
    /\ task[t].pc = "conn"
    /\ task' = [task EXCEPT ![t].pc = "open_cmd_channel", ![t].op = "exec"]
    /\ handle' = [handle EXCEPT ![task[t].conn] = lock(@, t)]
    /\ UNCHANGED <<connections, pool_alive, device, ex, proc, rn, it>>

\* open, up to the lock().await of open_cmd_channel.
open(t) ==
    /\ task[t].pc = "conn"
    /\ task' = [task EXCEPT ![t].pc = "open_cmd_channel", ![t].op = "open"]
    /\ handle' = [handle EXCEPT ![task[t].conn] = lock(@, t)]
    /\ UNCHANGED <<connections, pool_alive, device, ex, proc, rn, it>>

\* Every failure reported as Reconnect.
open_cmd_channel_result_reconnect(result) ==
    IF result = "Ok" THEN NoResult ELSE ErrReconnect

\* What open_cmd_channel returns for the result of channel_open_session.
open_cmd_channel_result(result) ==
    IF result = "Ok" THEN NoResult
    ELSE IF result = "ChannelOpenFailure" THEN ErrReconnect
    ELSE FromRussh(result)

\* The pool after open_cmd_channel saw `result`.
open_cmd_channel_pool(c, result) ==
    IF result = "Ok" THEN connections ELSE remove_from_pool(c)

\* open_cmd_channel from the moment the session lock is held: the channel-open
\* request completes with `result`, the lock is released with the statement,
\* and on an error the Connection evicts itself and the error is returned.
\* On success exec goes on with the channel and open returns the Proc.
open_cmd_channel(t, result) ==
    LET c == task[t].conn IN
    /\ task[t].pc = "open_cmd_channel"
    /\ holds(handle[c], t)
    /\ handle' = [handle EXCEPT ![c] = unlock(@)]
    /\ connections' = open_cmd_channel_pool(c, result)
    /\ IF result # "Ok"
         THEN /\ task' = [task EXCEPT ![t].pc = "done", ![t].opened = result,
                                      ![t].result = open_cmd_channel_result(result)]
              /\ UNCHANGED proc
         ELSE IF task[t].op = "exec"
           THEN /\ task' = [task EXCEPT ![t].pc = "exec_request",
                                        ![t].opened = result]
                /\ UNCHANGED proc
           ELSE /\ task' = [task EXCEPT ![t].pc = "done", ![t].opened = result,
                                        ![t].result = OkProc]
                /\ proc' = [proc EXCEPT ![t] = [NoProc EXCEPT !.ch = "Some"]]
    /\ UNCHANGED <<pool_alive, device, ex, rn, it>>

\* ch.exec(true, command).await?, and the test of the caller's `stdin`.
exec_request(t, stdin, sent) ==
    /\ task[t].pc = "exec_request"
    /\ task' = [task EXCEPT
                  ![t].pc = IF ~sent THEN "done"
                            ELSE IF stdin THEN "stdin_data" ELSE "wait",
                  ![t].result = IF sent THEN NoResult ELSE FromRussh("SendError")]
    /\ UNCHANGED <<connections, pool_alive, device, handle, ex, proc, rn, it>>

\* ch.data(&*data).await?
exec_stdin_data(t, sent) ==
    /\ task[t].pc = "stdin_data"
    /\ task' = [task EXCEPT
                  ![t].pc = IF sent THEN "stdin_eof" ELSE "done",
                  ![t].result = IF sent THEN NoResult ELSE FromRussh("SendError")]
    /\ UNCHANGED <<connections, pool_alive, device, handle, ex, proc, rn, it>>

\* ch.eof().await?
exec_stdin_eof(t, sent) ==
    /\ task[t].pc = "stdin_eof"
    /\ task' = [task EXCEPT
                  ![t].pc = IF sent THEN "wait" ELSE "done",
                  ![t].result = IF sent THEN NoResult ELSE FromRussh("SendError")]
    /\ UNCHANGED <<connections, pool_alive, device, handle, ex, proc, rn, it>>

\* The end of the stream taken for the end of the loop.
exec_none_returns(st) ==
    IF unwrap_or(st.status, 0) # 0
      THEN ErrExitStatus(unwrap_or(st.status, 0), st.stderr)
      ELSE Ok(st.stdout)

\* ch.wait().await.ok_or(Error::new("empty message"))? on a stream that ended.
exec_none(st) == ErrNew("empty message")

\* The loop left at the end-of-stream, whatever the status.
exec_match_break_on_eof(st, m) ==
    LET seen == [st EXCEPT !.got = Append(@, m)] IN
    CASE m.t = "Data" ->
           [st |-> [seen EXCEPT !.stdout = @ \o m.data], brk |-> FALSE]
      [] m.t = "ExtendedData" ->
           [st |-> IF m.ext = 1 THEN [seen EXCEPT !.stderr = @ \o m.data] ELSE seen,
            brk |-> FALSE]
      [] m.t = "ExitStatus" ->
           [st |-> [seen EXCEPT !.status = <<m.code>>], brk |-> st.eof]
      [] m.t = "Eof" ->
           [st |-> [seen EXCEPT !.eof = TRUE], brk |-> TRUE]
      [] OTHER ->
           [st |-> seen, brk |-> FALSE]

\* Each chunk put in front of the buffer instead of behind it.
exec_match_prepend(st, m) ==
    LET seen == [st EXCEPT !.got = Append(@, m)] IN
    CASE m.t = "Data" ->
           [st |-> [seen EXCEPT !.stdout = m.data \o @], brk |-> FALSE]
      [] m.t = "ExtendedData" ->
           [st |-> IF m.ext = 1 THEN [seen EXCEPT !.stderr = @ \o m.data] ELSE seen,
            brk |-> FALSE]
      [] m.t = "ExitStatus" ->
           [st |-> [seen EXCEPT !.status = <<m.code>>], brk |-> st.eof]
      [] m.t = "Eof" ->
           [st |-> [seen EXCEPT !.eof = TRUE], brk |-> st.status # <<>>]
      [] OTHER ->
           [st |-> seen, brk |-> FALSE]

\* Extended data of every stream kept, not only of stream 1.
exec_match_any_ext(st, m) ==
    LET seen == [st EXCEPT !.got = Append(@, m)] IN
    CASE m.t = "Data" ->
           [st |-> [seen EXCEPT !.stdout = @ \o m.data], brk |-> FALSE]
      [] m.t = "ExtendedData" ->
           [st |-> [seen EXCEPT !.stderr = @ \o m.data], brk |-> FALSE]
      [] m.t = "ExitStatus" ->
           [st |-> [seen EXCEPT !.status = <<m.code>>], brk |-> st.eof]
      [] m.t = "Eof" ->
           [st |-> [seen EXCEPT !.eof = TRUE], brk |-> st.status # <<>>]
      [] OTHER ->
           [st |-> seen, brk |-> FALSE]

\* One arm of exec's match: the locals after message m, and whether it breaks.
exec_match(st, m) ==
    LET seen == [st EXCEPT !.got = Append(@, m)] IN
    CASE m.t = "Data" ->
           [st |-> [seen EXCEPT !.stdout = @ \o m.data], brk |-> FALSE]
      [] m.t = "ExtendedData" ->
           [st |-> IF m.ext = 1 THEN [seen EXCEPT !.stderr = @ \o m.data] ELSE seen,
            brk |-> FALSE]
      [] m.t = "ExitStatus" ->
           [st |-> [seen EXCEPT !.status = <<m.code>>], brk |-> st.eof]
      [] m.t = "Eof" ->
           [st |-> [seen EXCEPT !.eof = TRUE], brk |-> st.status # <<>>]
      [] OTHER ->
           [st |-> seen, brk |-> FALSE]

\* exec after its loop: the status decides between the error and stdout.
exec_return(st) ==
    LET status == unwrap_or(st.status, 0) IN
    IF status # 0 THEN ErrExitStatus(status, st.stderr) ELSE Ok(st.stdout)

\* exec's loop and return on the whole stream s, from the locals st: the
\* result, or NoResult when s leaves exec waiting.
RECURSIVE exec_loop(_, _)
exec_loop(st, s) ==
    IF s = <<>> THEN NoResult
    ELSE IF Head(s) = NoMsg THEN exec_none(st)
    ELSE LET r == exec_match(st, Head(s)) IN
         IF r.brk THEN exec_return(r.st) ELSE exec_loop(r.st, Tail(s))

\* One turn of exec's loop: ch.wait().await yields m (NoMsg: the stream has
\* ended); `sends` tells whether the remote side still sends m.
\* exec evicting its Connection whenever it returns an error.
exec_wait_evicts(t, m, sends) ==
    /\ task[t].pc = "wait"
    /\ IF m = NoMsg
         THEN /\ task' = [task EXCEPT ![t].pc = "done",
                                      ![t].result = exec_none(ex[t])]
              /\ ex' = [ex EXCEPT ![t].got = Append(@, m)]
              /\ connections' = remove_from_pool(task[t].conn)
         ELSE /\ sends
              /\ LET r == exec_match(ex[t], m) IN
                   /\ ex' = [ex EXCEPT ![t] = r.st]
                   /\ task' = IF r.brk
                                THEN [task EXCEPT ![t].pc = "done",
                                                  ![t].result = exec_return(r.st)]
                                ELSE task
                   /\ connections' = IF r.brk /\ exec_return(r.st).kind # "Ok"
                                       THEN remove_from_pool(task[t].conn)
                                       ELSE connections
    /\ UNCHANGED <<pool_alive, device, handle, proc, rn, it>>
exec_wait(t, m, sends) ==
    /\ task[t].pc = "wait"
    /\ IF m = NoMsg
         THEN /\ task' = [task EXCEPT ![t].pc = "done",
                                      ![t].result = exec_none(ex[t])]
              /\ ex' = [ex EXCEPT ![t].got = Append(@, m)]
         ELSE /\ sends
              /\ LET r == exec_match(ex[t], m) IN
                   /\ ex' = [ex EXCEPT ![t] = r.st]
                   /\ task' = IF r.brk
                                THEN [task EXCEPT ![t].pc = "done",
                                                  ![t].result = exec_return(r.st)]
                                ELSE task
    /\ UNCHANGED <<connections, pool_alive, device, handle, proc, rn, it>>

\* ------------------------------------------------------------------ Proc
\* run, up to its first self.ch.lock().await.
run(t) ==
    /\ proc[t].ch # "NoProc"
    /\ rn[t].pc = "idle"
    /\ rn' = [rn EXCEPT ![t].pc = "lock1"]
    /\ proc' = [proc EXCEPT ![t].lock = lock(@, Runner)]
    /\ UNCHANGED <<connections, pool_alive, device, handle, task, ex, it>>

\* run holding the slot's lock for the exec request: a populated slot starts
\* the request (the guard lives on through it), an empty one skips it and run
\* goes to its loop's lock().await.
\* run sending its exec request whatever the slot holds.
run_exec_always(t) ==
    /\ rn[t].pc = "lock1"
    /\ holds(proc[t].lock, Runner)
    /\ rn' = [rn EXCEPT ![t].pc = "exec"]
    /\ UNCHANGED proc
    /\ UNCHANGED <<connections, pool_alive, device, handle, task, ex, it>>
run_exec(t) ==
    /\ rn[t].pc = "lock1"
    /\ holds(proc[t].lock, Runner)
    /\ IF proc[t].ch = "Some"
         THEN /\ rn' = [rn EXCEPT ![t].pc = "exec"]
              /\ UNCHANGED proc
         ELSE /\ rn' = [rn EXCEPT ![t].pc = "lock"]
              /\ proc' = [proc EXCEPT ![t].lock = lock(unlock(@), Runner)]
    /\ UNCHANGED <<connections, pool_alive, device, handle, task, ex, it>>

\* ch.exec(true, command).await? completes; the guard is dropped.
run_exec_done(t, sent) ==
    /\ rn[t].pc = "exec"
    /\ IF sent
         THEN /\ rn' = [rn EXCEPT ![t].pc = "lock"]
              /\ proc' = [proc EXCEPT ![t].lock = lock(unlock(@), Runner)]
         ELSE /\ rn' = [rn EXCEPT ![t].pc = "done",
                                  ![t].result = FromRussh("SendError")]
              /\ proc' = [proc EXCEPT ![t].lock = unlock(@)]
    /\ UNCHANGED <<connections, pool_alive, device, handle, task, ex, it>>

\* ch.wait().await.ok_or(Error::new("empty message"))? on a stream that ended.
run_none(st) == ErrNew("empty message")

\* Error-stream data handed to the sink as well.
run_match_ext_to_sink(st, m) ==
    LET seen == [st EXCEPT !.got = Append(@, m)] IN
    CASE m.t = "Data" ->
           [st |-> [seen EXCEPT !.sink = Append(@, <<st.index, m.data>>),
                                !.index = @ + 1],
            brk |-> FALSE]
      [] m.t = "ExtendedData" ->
           [st |-> IF m.ext = 1
                     THEN [seen EXCEPT !.sink = Append(@, <<st.index, m.data>>),
                                       !.index = @ + 1,
                                       !.stderr = @ \o m.data]
                     ELSE seen,
            brk |-> FALSE]
      [] m.t = "ExitStatus" ->
           [st |-> [seen EXCEPT !.status = <<m.code>>], brk |-> st.eof]
      [] m.t = "Eof" ->
           [st |-> [seen EXCEPT !.eof = TRUE], brk |-> st.status # <<>>]
      [] OTHER ->
           [st |-> seen, brk |-> FALSE]

\* One arm of run's match: the locals after message m, and whether it breaks.
run_match(st, m) ==
    LET seen == [st EXCEPT !.got = Append(@, m)] IN
    CASE m.t = "Data" ->
           [st |-> [seen EXCEPT !.sink = Append(@, <<st.index, m.data>>),
                                !.index = @ + 1],
            brk |-> FALSE]
      [] m.t = "ExtendedData" ->
           [st |-> IF m.ext = 1 THEN [seen EXCEPT !.stderr = @ \o m.data] ELSE seen,
            brk |-> FALSE]
      [] m.t = "ExitStatus" ->
           [st |-> [seen EXCEPT !.status = <<m.code>>], brk |-> st.eof]
      [] m.t = "Eof" ->
           [st |-> [seen EXCEPT !.eof = TRUE], brk |-> st.status # <<>>]
      [] OTHER ->
           [st |-> seen, brk |-> FALSE]

\* Success whatever the status.
run_return_ok(st) == Ok(<<>>)

\* run after its loop: the status decides between the error and success.
run_return(st) ==
    LET status == unwrap_or(st.status, 0) IN
    IF status # 0 THEN ErrExitStatus(status, st.stderr) ELSE Ok(<<>>)

\* The head of run's loop, the slot's lock held: a populated slot is waited
\* on (the guard lives on through the wait), an empty one breaks the loop and
\* run returns.
run_loop(t) ==
    /\ rn[t].pc = "lock"
    /\ holds(proc[t].lock, Runner)
    /\ IF proc[t].ch = "Some"
         THEN /\ rn' = [rn EXCEPT ![t].pc = "wait"]
              /\ UNCHANGED proc
         ELSE /\ rn' = [rn EXCEPT ![t].pc = "done", ![t].brk = "empty",
                                  ![t].result = run_return(rn[t])]
              /\ proc' = [proc EXCEPT ![t].lock = unlock(@)]
    /\ UNCHANGED <<connections, pool_alive, device, handle, task, ex, it>>

\* ch.wait().await yields m (NoMsg: the stream has ended); `sends` tells
\* whether the remote side still sends m. The guard is dropped after the arm.
run_wait(t, m, sends) ==
    /\ rn[t].pc = "wait"
    /\ IF m = NoMsg
         THEN /\ rn' = [rn EXCEPT ![t].pc = "done", ![t].got = Append(@, m),
                                  ![t].result = run_none(rn[t])]
              /\ proc' = [proc EXCEPT ![t].lock = unlock(@)]
         ELSE /\ sends
              /\ LET r == run_match(rn[t], m) IN
                   IF r.brk
                     THEN /\ rn' = [rn EXCEPT ![t] = [r.st EXCEPT
                                      !.pc = "done", !.brk = "both",
                                      !.result = run_return(r.st)]]
                          /\ proc' = [proc EXCEPT ![t].lock = unlock(@)]
                     ELSE /\ rn' = [rn EXCEPT ![t] = [r.st EXCEPT !.pc = "lock"]]
                          /\ proc' = [proc EXCEPT ![t].lock = lock(unlock(@), Runner)]
    /\ UNCHANGED <<connections, pool_alive, device, handle, task, ex, it>>

\* interrupt, up to its self.ch.lock().await.
interrupt(t, i) ==
    /\ proc[t].ch # "NoProc"
    /\ it[t][i].pc = "idle"
    /\ it' = [it EXCEPT ![t][i] = [@ EXCEPT
                !.pc = "lock",
                !.mark = IF /\ rn[t].pc \notin {"idle", "done"}
                            /\ rn[t].status = <<>>
                            /\ rn[t].sink # <<>>
                           THEN <<Len(rn[t].sink)>> ELSE <<>>,
                !.after = (rn[t].pc = "done" /\ rn[t].brk = "both")]]
    /\ proc' = [proc EXCEPT ![t].lock = lock(@, i)]
    /\ UNCHANGED <<connections, pool_alive, device, handle, task, ex, rn>>

\* The channel closed through the slot and left in it.
interrupt_take_leaves(t, i) ==
    /\ it[t][i].pc = "lock"
    /\ holds(proc[t].lock, i)
    /\ IF proc[t].ch = "Some"
         THEN /\ proc' = [proc EXCEPT ![t].taken = i]
              /\ it' = [it EXCEPT ![t][i].pc = "close"]
         ELSE /\ proc' = [proc EXCEPT ![t].lock = unlock(@)]
              /\ it' = [it EXCEPT ![t][i].pc = "done", ![t][i].result = Ok(<<>>)]
    /\ UNCHANGED <<connections, pool_alive, device, handle, task, ex, rn>>

\* guard.take() under the slot's lock: a channel taken is then closed (the
\* guard lives on through the close), an empty slot makes interrupt return.
interrupt_take(t, i) ==
    /\ it[t][i].pc = "lock"
    /\ holds(proc[t].lock, i)
    /\ IF proc[t].ch = "Some"
         THEN /\ proc' = [proc EXCEPT ![t].ch = "None", ![t].taken = i]
              /\ it' = [it EXCEPT ![t][i].pc = "close"]
         ELSE /\ proc' = [proc EXCEPT ![t].lock = unlock(@)]
              /\ it' = [it EXCEPT ![t][i].pc = "done", ![t][i].result = Ok(<<>>)]
    /\ UNCHANGED <<connections, pool_alive, device, handle, task, ex, rn>>

\* ch.close().await? completes; the guard is dropped.
interrupt_close(t, i, sent) ==
    /\ it[t][i].pc = "close"
    /\ proc' = [proc EXCEPT ![t].closed = @ + 1, ![t].lock = unlock(@)]
    /\ it' = [it EXCEPT ![t][i].pc = "done",
                        ![t][i].result = IF sent THEN Ok(<<>>)
                                         ELSE FromRussh("SendError")]
    /\ UNCHANGED <<connections, pool_alive, device, handle, task, ex, rn>>

\* --------------------------------------------------------- specifications
\* The pool: callers on shared Connections, channels carrying PoolMsgs.
Next ==
    \/ \E t \in Tasks, d \in Devices, b \in BOOLEAN : get_or_create(t, d, b)
    \/ drop_pool
    \/ \E t \in Tasks : retry(t)
    \/ \E t \in Tasks : exec(t)
    \/ \E t \in Tasks : open(t)
    \/ \E t \in Tasks, r \in {"Ok"} \cup OpenErrors : open_cmd_channel(t, r)
    \/ \E t \in Tasks, i, b \in BOOLEAN : exec_request(t, i, b)
    \/ \E t \in Tasks, b \in BOOLEAN : exec_stdin_data(t, b)
    \/ \E t \in Tasks, b \in BOOLEAN : exec_stdin_eof(t, b)
    \/ \E t \in Tasks, m \in PoolMsgs \cup {NoMsg} : exec_wait(t, m, Unsent(ex[t].got, m))

Spec == Init /\ [][Next]_vars

\* One caller running exec, the channel carrying any of Msgs.
NextExec ==
    \/ \E d \in Devices, b \in BOOLEAN : get_or_create(1, d, b)
    \/ exec(1)
    \/ \E r \in {"Ok"} \cup OpenErrors : open_cmd_channel(1, r)
    \/ \E i, b \in BOOLEAN : exec_request(1, i, b)
    \/ \E b \in BOOLEAN : exec_stdin_data(1, b)
    \/ \E b \in BOOLEAN : exec_stdin_eof(1, b)
    \/ \E m \in Msgs \cup {NoMsg} : exec_wait(1, m, Len(ex[1].got) < MaxMsgs)

SpecExec == Init /\ [][NextExec]_vars

\* One caller opening a Proc, one run and NInts interrupt calls on it.
NextProc ==
    \/ \E d \in Devices, b \in BOOLEAN : get_or_create(1, d, b)
    \/ open(1)
    \/ \E r \in {"Ok"} \cup OpenErrors : open_cmd_channel(1, r)
    \/ run(1)
    \/ run_exec(1)
    \/ \E b \in BOOLEAN : run_exec_done(1, b)
    \/ run_loop(1)
    \/ \E m \in RunMsgs \cup {NoMsg} : run_wait(1, m, Len(rn[1].got) < MaxRunMsgs)
    \/ \E i \in Ints : interrupt(1, i)
    \/ \E i \in Ints : interrupt_take(1, i)
    \/ \E i \in Ints, b \in BOOLEAN : interrupt_close(1, i, b)

SpecProc == Init /\ [][NextProc]_vars

\* The executor keeps polling every future that can make progress: a lock that
\* is free is handed to the task at the head of its queue, and a request
\* written to the channel completes. Nothing obliges the remote side to send
\* a message, nor a caller to call.
FairProc ==
    /\ WF_vars(run_exec(1))
    /\ WF_vars(\E b \in BOOLEAN : run_exec_done(1, b))
    /\ WF_vars(run_loop(1))
    /\ \A i \in Ints : WF_vars(interrupt_take(1, i))
    /\ \A i \in Ints : WF_vars(\E b \in BOOLEAN : interrupt_close(1, i, b))

SpecProcFair == Init /\ [][NextProc]_vars /\ FairProc

\* One caller that uses its Connection both ways, buffered and streamed, and
\* comes back to the pool after each call; nobody interrupts.
NextUse ==
    \/ \E d \in Devices, b \in BOOLEAN : get_or_create(1, d, b)
    \/ retry_idle(1)
    \/ exec(1)
    \/ open(1)
    \/ \E r \in {"Ok"} \cup OpenErrors : open_cmd_channel(1, r)
    \/ \E i, b \in BOOLEAN : exec_request(1, i, b)
    \/ \E b \in BOOLEAN : exec_stdin_data(1, b)
    \/ \E b \in BOOLEAN : exec_stdin_eof(1, b)
    \/ \E m \in PoolMsgs \cup {NoMsg} : exec_wait(1, m, Unsent(ex[1].got, m))
    \/ run(1)
    \/ run_exec(1)
    \/ \E b \in BOOLEAN : run_exec_done(1, b)
    \/ run_loop(1)
    \/ \E m \in PoolMsgs \cup {NoMsg} : run_wait(1, m, Unsent(rn[1].got, m))

SpecUse == Init /\ [][NextUse]_vars

\* ------------------------------------------------------------------ claims
\* The step in which caller t returns from open_cmd_channel with an error.
OpenFails(t) ==
    /\ task[t].pc = "open_cmd_channel"
    /\ task'[t].pc = "done"

\* What a sequence of consumed messages holds.
IsData(m) == m.t = "Data"
IsStderr(m) == m.t = "ExtendedData" /\ m.ext = 1
IsExitStatus(m) == m.t = "ExitStatus"
IsEof(m) == m.t = "Eof"
IsEnd(m) == m = NoMsg
RECURSIVE Concat(_)
Concat(s) == IF s = <<>> THEN <<>> ELSE Head(s).data \o Concat(Tail(s))
StdoutOf(got) == Concat(SelectSeq(got, IsData))
StderrOf(got) == Concat(SelectSeq(got, IsStderr))
StatusesOf(got) == SelectSeq(got, IsExitStatus)
SawExitStatus(got) == StatusesOf(got) # <<>>
SawEof(got) == SelectSeq(got, IsEof) # <<>>
Ended(got) == SelectSeq(got, IsEnd) # <<>>
LastStatus(got) == StatusesOf(got)[Len(StatusesOf(got))].code
\* s with the messages at positions i and j exchanged.
Swap(s, i, j) ==
    [k \in 1..Len(s) |-> IF k = i THEN s[j] ELSE IF k = j THEN s[i] ELSE s[k]]

\* exec has returned what its message loop made of the channel's messages.
ExecLooped(t) ==
    /\ task[t].pc = "done"
    /\ task[t].op = "exec"
    /\ task[t].result.kind \in {"Ok", "ExitStatus", "Message"}

\* C1: when the channel-open request of exec or open is refused
\* (ChannelOpenFailure), then at the return the pool has no entry for the
\* Connection's device name and the caller gets Reconnect, not the refusal.
C1_RefusedEvictsAndReconnects ==
    [][\A t \in Tasks :
         OpenFails(t) /\ task'[t].opened = "ChannelOpenFailure"
           => /\ connections'[device[task[t].conn]] = 0
              /\ task'[t].result = ErrReconnect
              /\ task'[t].result # FromRussh("ChannelOpenFailure")]_vars

\* Both an exec and an open have been refused, one of them on a Connection that
\* had already left the pool; the pool has no entry for the device.
C1_Witness ==
    /\ task[1].pc = "done" /\ task[1].op = "exec"
    /\ task[1].opened = "ChannelOpenFailure" /\ task[1].result = ErrReconnect
    /\ task[2].pc = "done" /\ task[2].op = "open"
    /\ task[2].opened = "ChannelOpenFailure" /\ task[2].result = ErrReconnect
    /\ task[1].conn # task[2].conn
    /\ connections[device[task[1].conn]] = 0

\* C2: when channel-open fails with a transport error other than the refusal,
\* the device's entry is removed from the pool and the caller gets that
\* error, with its cause, and not Reconnect.
C2_OtherErrorEvictsAndPropagates ==
    [][\A t \in Tasks :
         OpenFails(t) /\ task'[t].opened \in OpenErrors \ {"ChannelOpenFailure"}
           => /\ connections'[device[task[t].conn]] = 0
              /\ task'[t].result = FromRussh(task'[t].opened)
              /\ task'[t].result # ErrReconnect]_vars

\* Two callers got two different transport errors from channel-open, and the
\* pool has no entry for the device.
C2_Witness ==
    /\ task[1].pc = "done" /\ task[1].opened = "Disconnect"
    /\ task[1].result = FromRussh("Disconnect")
    /\ task[2].pc = "done" /\ task[2].opened = "SendError"
    /\ task[2].result = FromRussh("SendError")
    /\ connections[device[task[1].conn]] = 0

\* C3 as stated: for every message sequence, exec succeeds if and only if the
\* observed exit status is zero or none was ever signaled, and then returns
\* the stdout chunks concatenated in arrival order.
C3_SuccessIffZeroOrAbsent ==
    ExecLooped(1) =>
      /\ task[1].result.kind = "Ok"
           <=> (~SawExitStatus(ex[1].got) \/ LastStatus(ex[1].got) = 0)
      /\ task[1].result.kind = "Ok" => task[1].result.output = StdoutOf(ex[1].got)

\* C3 amended: exec succeeds if and only if it has observed both an exit
\* status and an end-of-stream and the last exit status observed is zero (a
\* stream ending with no exit status makes it fail); on success it returns the
\* concatenation, in arrival order, of all stdout chunks received.
C3_SuccessIffCompleteAndZero ==
    ExecLooped(1) =>
      /\ task[1].result.kind = "Ok"
           <=> /\ SawExitStatus(ex[1].got)
               /\ SawEof(ex[1].got)
               /\ LastStatus(ex[1].got) = 0
      /\ task[1].result.kind = "Ok" => task[1].result = Ok(StdoutOf(ex[1].got))

\* exec succeeded on two different chunks, the second one arriving between
\* the exit status and the end-of-stream.
C3_Witness ==
    /\ ExecLooped(1)
    /\ ex[1].got = <<Data(<<2, 3>>), ExitStatus(0), Data(<<1>>), Eof>>
    /\ task[1].result = Ok(<<2, 3, 1>>)

\* C4: exec leaves its loop only after an exit status and an end-of-stream
\* have both been observed, and the stream with the two delivered in the
\* other order (the data left where it is) gives the same result.
C4_BothSignalsAnyOrder ==
    ExecLooped(1) /\ task[1].result.kind # "Message" =>
      LET got == ex[1].got IN
      /\ SawExitStatus(got) /\ SawEof(got)
      /\ exec_loop(ExecLocals, got) = task[1].result
      /\ \A i, j \in 1..Len(got) :
           IsEof(got[i]) /\ IsExitStatus(got[j])
           /\ Len(StatusesOf(got)) = 1 /\ Len(SelectSeq(got, IsEof)) = 1
             => exec_loop(ExecLocals, Swap(got, i, j)) = task[1].result

\* exec failed with status 2 on a stream whose end-of-stream came first, with
\* stderr and stdout data on both sides of it.
C4_Witness ==
    /\ ExecLooped(1)
    /\ ex[1].got = <<ExtendedData(<<1>>, 1), Eof, ExtendedData(<<2, 3>>, 1),
                     ExitStatus(2)>>
    /\ task[1].result = ErrExitStatus(2, <<1, 2, 3>>)

\* C5 as stated: once exec has observed a non-zero exit status it fails with
\* the ExitStatus error carrying that code and the stream-1 extended data.
C5_NonZeroObservedFails ==
    ExecLooped(1) =>
      \A k \in 1..Len(ex[1].got) :
        IsExitStatus(ex[1].got[k]) /\ ex[1].got[k].code # 0
          => task[1].result = ErrExitStatus(ex[1].got[k].code, StderrOf(ex[1].got))

\* C5 amended: when exec's loop completes (exit status and end-of-stream both
\* observed) and the last exit status observed is non-zero, exec fails with
\* the ExitStatus error whose status is that code and whose output is the
\* concatenation of the extended data of stream 1 only; no stdout is returned.
C5_NonZeroCompleteFails ==
    ExecLooped(1) /\ SawExitStatus(ex[1].got) /\ SawEof(ex[1].got)
    /\ LastStatus(ex[1].got) # 0
      => /\ task[1].result
              = ErrExitStatus(LastStatus(ex[1].got), StderrOf(ex[1].got))
         /\ task[1].result.kind # "Ok"

\* exec failed with status 1 having received stdout data, stderr data and
\* extended data of stream 2.
C5_Witness ==
    /\ ExecLooped(1)
    /\ ex[1].got = <<Data(<<1>>), ExtendedData(<<1>>, 2), ExitStatus(1),
                     ExtendedData(<<2, 3>>, 1), Eof>>
    /\ task[1].result = ErrExitStatus(1, <<2, 3>>)

\* C6: when the message stream ends with no exit status ever produced, exec
\* fails with the generic error: neither success nor an ExitStatus error.
C6_EndWithoutStatusFails ==
    task[1].pc = "done" /\ task[1].op = "exec"
    /\ Ended(ex[1].got) /\ ~SawExitStatus(ex[1].got)
      => /\ task[1].result = ErrNew("empty message")
         /\ task[1].result.kind \notin {"Ok", "ExitStatus"}

\* The stream ended after stdout data and an end-of-stream, with no exit status.
C6_Witness ==
    /\ task[1].pc = "done"
    /\ ex[1].got = <<Data(<<1>>), Eof, NoMsg>>
    /\ task[1].result = ErrNew("empty message")

\* run has returned because it found the slot emptied by interrupt.
RunInterrupted(t) == rn[t].pc = "done" /\ rn[t].brk = "empty"
\* run has returned having observed both the exit status and the end-of-stream.
RunCompleted(t) == rn[t].pc = "done" /\ rn[t].brk = "both"

\* C7 as stated: when interrupt empties the slot before run has observed both
\* an exit status and an end-of-stream, run returns success whatever it had
\* observed, an exit status without end-of-stream included.
C7_InterruptedRunSucceeds ==
    RunInterrupted(1) => rn[1].result = Ok(<<>>)

\* C7 amended: when interrupt empties the slot before run has observed both
\* signals, run's loop ends and the exit-status check is applied to what run
\* had observed: success when no exit status or a zero one had been observed,
\* the ExitStatus error (that status, the stderr collected) when a non-zero
\* exit status had been observed without its end-of-stream.
C7_InterruptedRunChecksStatus ==
    RunInterrupted(1) =>
      LET got == rn[1].got IN
      /\ proc[1].taken # 0
      /\ ~(SawExitStatus(got) /\ SawEof(got))
      /\ rn[1].result =
           IF SawExitStatus(got) /\ LastStatus(got) # 0
             THEN ErrExitStatus(LastStatus(got), StderrOf(got))
             ELSE Ok(<<>>)

\* run was interrupted after stderr data and exit status 1, before any
\* end-of-stream, and has returned the ExitStatus error.
C7_Witness ==
    /\ RunInterrupted(1)
    /\ rn[1].got = <<ExtendedData(<<1>>, 1), ExitStatus(1)>>
    /\ rn[1].result = ErrExitStatus(1, <<1>>)

\* C8: once interrupt has been called after run delivered chunks 0..k and
\* before any exit status, no further chunk reaches the sink and run returns
\* success.
C8_NoChunkAfterInterruptCall ==
    \A i \in Ints :
      it[1][i].mark # <<>> =>
        /\ Len(rn[1].sink) = it[1][i].mark[1]
        /\ rn[1].pc = "done" => rn[1].result = Ok(<<>>)

C10_SinkGetsStdoutInOrder ==
    LET data == SelectSeq(rn[1].got, IsData) IN
    /\ rn[1].sink = [k \in 1..Len(data) |-> <<k - 1, data[k].data>>]
    /\ rn[1].index = Len(data)

\* Two chunks delivered with error-stream data between them.
C10_Witness ==
    /\ rn[1].got = <<Data(<<1>>), ExtendedData(<<1>>, 1), Data(<<2, 3>>)>>
    /\ rn[1].sink = << <<0, <<1>>>>, <<1, <<2, 3>>>> >>
    /\ rn[1].index = 2

\* run is using the channel: its exec request or its wait is in progress.
RunUsesChannel(t) == rn[t].pc \in {"exec", "wait"}

\* C11: under every interleaving of run and interrupt on one Proc at most one
\* of them holds the channel at any instant: no interrupt takes or closes the
\* channel while run sends its exec request or waits on a message, and run
\* never uses the channel once an interrupt has taken it.
C11_OneHolderOfTheChannel ==
    /\ RunUsesChannel(1) =>
         /\ holds(proc[1].lock, Runner)
         /\ proc[1].ch = "Some" /\ proc[1].taken = 0
         /\ \A i \in Ints : it[1][i].pc # "close"
    /\ \A i \in Ints :
         it[1][i].pc = "close" =>
           /\ holds(proc[1].lock, i)
           /\ proc[1].taken = i
           /\ \A j \in Ints \ {i} : it[1][j].pc # "close"
    /\ proc[1].taken # 0 => ~RunUsesChannel(1)

\* An interrupt has taken the channel and is closing it while run, which has
\* consumed a chunk, waits for the slot's lock.
C11_Witness ==
    /\ it[1][1].pc = "close"
    /\ rn[1].pc = "lock" /\ rn[1].sink # <<>>
    /\ proc[1].lock = <<1, Runner>>

\* ------------------------------------------- errors of use and the pool
\* exec fails to send its request or to write stdin on the open channel.
ExecUseFails(t) ==
    /\ task[t].pc \in {"exec_request", "stdin_data", "stdin_eof"}
    /\ task'[t].pc = "done"

\* run fails to send its request on the Proc's channel.
RunUseFails(t) ==
    /\ rn[t].pc = "exec"
    /\ rn'[t].pc = "done"

\* exec returns from its message loop with the error e.
ExecLoopFails(t) ==
    /\ task[t].pc = "wait"
    /\ task'[t].pc = "done"
    /\ task'[t].result.kind \in {"ExitStatus", "Message"}

\* run returns from its message loop with the error e.
RunLoopFails(t) ==
    /\ rn[t].pc \in {"lock", "wait"}
    /\ rn'[t].pc = "done"
    /\ rn'[t].result.kind \in {"ExitStatus", "Message"}

\* C12: any transport error met while opening or using the session during
\* exec, open or run (a failed exec request or stdin write on an open channel
\* included) reaches the caller with its cause and leaves the Connection
\* evicted from the pool.
C12_TransportErrorEvicts ==
    [][\A t \in Tasks :
         /\ OpenFails(t) /\ task'[t].result.kind = "Transport"
              => /\ task'[t].result = FromRussh(task'[t].opened)
                 /\ connections'[device[task[t].conn]] # task[t].conn
         /\ ExecUseFails(t)
              => /\ task'[t].result.kind = "Transport"
                 /\ task'[t].result.cause # ""
                 /\ connections'[device[task[t].conn]] # task[t].conn
         /\ RunUseFails(t)
              => /\ rn'[t].result.kind = "Transport"
                 /\ rn'[t].result.cause # ""
                 /\ connections'[device[task[t].conn]] # task[t].conn]_vars

\* C19: an error of exec or run that is a non-zero exit status or the
\* end-of-stream protocol error leaves the pool as it was: the entry of the
\* Connection is still there and still that Connection, so the next
\* get_or_create for the device returns it and establishes nothing.
C19_CommandErrorsKeepThePool ==
    [][\A t \in Tasks :
         ExecLoopFails(t) \/ RunLoopFails(t)
           => /\ connections' = connections
              /\ pool_alive' = pool_alive
              /\ connections'[device[task[t].conn]] = task[t].conn]_vars

\* run has failed on a non-zero exit status and its caller, back at the pool
\* afterwards, was handed the one Connection ever built.
C19_Witness ==
    /\ rn[1].pc = "done" /\ rn[1].result.kind = "ExitStatus"
    /\ task[1].pc = "conn" /\ task[1].conn = 1
    /\ Cardinality(Created) = 1

\* ------------------------------------------------- evicted Connections
\* c has been built and is not, or no longer, the pool's entry for its device.
Evicted(c) == c \in Created /\ connections[device[c]] # c

\* get_or_create hands a Connection to t.
Acquires(t) == task[t].pc = "idle" /\ task'[t].pc = "conn"

\* C14: an evicted Connection is never a pool entry again: every
\* get_or_create after the eviction returns a Connection of another identity
\* on a newly established session, also while the evicted one is still held
\* by an exec or a Proc in flight.
C14_EvictedNeverReturns ==
    [][/\ \A c \in ConnIds : Evicted(c) => Evicted(c)'
       /\ \A t \in Tasks :
            Acquires(t) =>
              /\ ~Evicted(task'[t].conn)
              /\ connections[device'[task'[t].conn]] = 0
                   => task'[t].conn \notin Created]_vars

\* Connection 1, evicted by another caller's failed channel-open, is still
\* held by an exec in its message loop while the pool's entry, handed to the
\* other caller, is Connection 2.
C14_Witness ==
    /\ task[1].pc = "wait" /\ task[1].conn = 1
    /\ Evicted(1)
    /\ task[2].pc = "conn" /\ task[2].conn = 2
    /\ connections[device[2]] = 2

\* C15: an interrupt invoked while run waits for the next message of the
\* channel eventually takes and closes the channel, and both interrupt and
\* run return, even if the remote side never sends another message.
C15_InterruptDuringWaitReturns ==
    \A i \in Ints :
      (it[1][i].pc = "lock" /\ rn[1].pc = "wait")
        ~> (it[1][i].pc = "done" /\ rn[1].pc = "done" /\ proc[1].ch = "None")

\* C16: self-eviction removes whatever entry is stored under the device name
\* and compares no identities, so a Connection that was already evicted and
\* replaced removes its replacement when a later channel-open on it fails.
C16_StaleEvictionRemovesNewer ==
    [][\A t \in Tasks :
         /\ OpenFails(t) /\ task'[t].opened \in OpenErrors
         /\ pool_alive
         /\ connections[device[task[t].conn]] \notin {0, task[t].conn}
         => connections'[device[task[t].conn]] = 0]_vars

\* Connection 1 was evicted and replaced by Connection 2, which caller 2
\* holds and has not failed on; the channel-open that caller 1 then tried on
\* Connection 1 failed, and the pool has lost the entry of Connection 2.
C16_Witness ==
    /\ pool_alive
    /\ task[1].pc = "done" /\ task[1].conn = 1
    /\ task[1].opened \in OpenErrors
    /\ task[2].pc \in {"conn", "open_cmd_channel"} /\ task[2].conn = 2
    /\ device[2] = device[1]
    /\ connections[device[2]] = 0

\* The callers whose channel-open request on Connection c is in flight: they
\* hold the session lock of c.
OpensInFlight(c) ==
    {t \in Tasks : /\ task[t].pc = "open_cmd_channel" /\ task[t].conn = c
                   /\ holds(handle[c], t)}

\* C17: within one Connection at most one channel-open request is in flight
\* at any instant, and the session lock is given back when the request
\* completes: only callers that are opening a channel hold or await it, so the
\* message loops on channels already opened run alongside a later
\* channel-open on the same Connection.
C17_SessionLockOnlyForOpen ==
    \A c \in ConnIds :
      /\ Cardinality(OpensInFlight(c)) <= 1
      /\ \A k \in 1..Len(handle[c]) :
           /\ task[handle[c][k]].pc = "open_cmd_channel"
           /\ task[handle[c][k]].conn = c
           /\ \A l \in 1..Len(handle[c]) : handle[c][l] = handle[c][k] => l = k

\* Caller 1 is in exec's message loop on a channel of Connection 1 while
\* caller 2 holds the session lock of Connection 1 for its own channel-open.
C17_Witness ==
    /\ task[1].pc = "wait" /\ task[1].conn = 1
    /\ ex[1].got # <<>>
    /\ task[2].conn = 1
    /\ OpensInFlight(1) = {2}

\* The interrupt calls whose ch.close() is in progress.
Closing == {i \in Ints : it[1][i].pc = "close"}

\* C18: over any interleaving of run with any number of interrupt calls the
\* channel of a Proc is closed at most once: only the interrupt that took the
\* channel out of the slot closes it, and every other interrupt finds the slot
\* empty and returns success without closing anything.
C18_ClosedAtMostOnce ==
    /\ proc[1].closed + Cardinality(Closing) <= 1
    /\ \A i \in Closing : proc[1].taken = i
    /\ \A i \in Ints :
         it[1][i].pc = "done" =>
           IF proc[1].taken = i
             THEN proc[1].closed = 1 /\ Closing = {}
             ELSE it[1][i].result = Ok(<<>>)

\* Two interrupts were called while run was in flight: the first took and
\* closed the channel, the second found the slot empty, and run, which had
\* consumed a chunk, left its loop on the empty slot.
C18_Witness ==
    /\ RunInterrupted(1) /\ rn[1].sink # <<>>
    /\ \A i \in Ints : it[1][i].pc = "done" /\ ~it[1][i].after
    /\ proc[1].taken = 1 /\ proc[1].closed = 1
    /\ it[1][2].result = Ok(<<>>)

\* C20: when interrupt has emptied the slot before run starts, or between
\* run's exec request and its first wait for a message, run sends no further
\* request on the channel, delivers no chunk to the sink and returns success.
C20_RunOnEmptySlotSucceeds ==
    proc[1].taken # 0 /\ rn[1].got = <<>> =>
      /\ ~RunUsesChannel(1)
      /\ rn[1].sink = <<>>
      /\ RunInterrupted(1) => rn[1].result = Ok(<<>>)
      /\ rn[1].pc = "done" => RunInterrupted(1) \/ rn[1].result = FromRussh("SendError")

\* run has returned success from a slot that an interrupt had emptied and
\* closed before run waited for any message.
C20_Witness ==
    /\ RunInterrupted(1)
    /\ rn[1].got = <<>> /\ rn[1].sink = <<>>
    /\ rn[1].result = Ok(<<>>)
    /\ proc[1].taken # 0 /\ proc[1].closed = 1

====
